---- MODULE Spec2Model ----
(***************************************************************************)
(* A model of the umamusume-ocr extraction pipeline                        *)
(* (src/uma_ocr_to_csv.py): dictionary loading, text normalisation, fuzzy  *)
(* matching, column grouping, stat parsing, record assembly, CSV append    *)
(* and the batch driver.                                                   *)
(*                                                                         *)
(* Strings are sequences of characters.  A character is a one-character    *)
(* string for printable ASCII and the string "U+XXXX" for the three        *)
(* non-ASCII code points the program names: U+25CB (white circle),         *)
(* U+25CE (bullseye) and U+3007 (ideographic zero).                        *)
(* Coordinates are integers (pixels).                                      *)
(***************************************************************************)
EXTENDS Integers, Sequences, FiniteSets, TLC

VARIABLES
    pc,               \* position of the process: import, main, extract steps, ...
    skill_file,       \* the skillnames.json file: [found, data]
    uma_file,         \* the umas.json file: [found, data]
    CANONICAL_SKILLS, \* module global, list of names
    CANONICAL_UMAS,   \* module global, list of names
    CANONICAL_MAP,    \* module global, ordered dict: sequence of <<key, name>>
    UMA_MAP,          \* module global, ordered dict: sequence of <<key, name>>
    images,           \* main: the images still to be processed
    res,              \* extract: the OCR result, a sequence of [box, text]
    width,            \* extract: the image width
    runner_name,      \* extract: local
    best_score,       \* extract: local, a fraction <<numerator, denominator>>
    stats,            \* extract: the dict built at line 219 and returned
    left,             \* _group_skills: the left column's lines, sorted in place
    right,            \* _group_skills: the right column's lines, sorted in place
    left_g,           \* _group_skills: _group_column(left)
    right_g,          \* _group_skills: _group_column(right)
    groups,           \* extract: result of _group_skills(res)
    gi,               \* extract: index of the next group of the for loop
    cands,            \* extract: per group, what the loop body did with it
    skills,           \* extract: local list
    seen,             \* extract: local set
    row,              \* main: the record extract returned
    csv,              \* the output file: [exists, lines]
    processed,        \* the images moved to processed/
    extract_calls,    \* number of calls of extract so far
    program,          \* the script run as __main__
    mapping,          \* load_skill_mapping: local, ordered dict <<key, skill_id>>
    map_i,            \* load_skill_mapping: index of the entry the outer loop is at
    map_j,            \* load_skill_mapping: index of the alias the inner loop is at
    last_hash,        \* clipboard watcher: local of main
    clipboard,        \* clipboard watcher: what the coming polls will find
    watch_log,        \* clipboard watcher: per poll, what was found and done
    now               \* clipboard watcher: int(time.time())

vars == <<pc, skill_file, uma_file, CANONICAL_SKILLS, CANONICAL_UMAS,
          CANONICAL_MAP, UMA_MAP, images, res, width, runner_name, best_score,
          stats, left, right, left_g, right_g, groups, gi, cands, skills, seen,
          row, csv, processed, extract_calls, program, mapping, map_i, map_j,
          last_hash, clipboard, watch_log, now>>

\* the state of uma_ocr_to_csv, of load_skill_mapping and of the clipboard watcher
ocrVars == <<CANONICAL_SKILLS, CANONICAL_UMAS, CANONICAL_MAP, UMA_MAP, res, width,
             runner_name, best_score, stats, left, right, left_g, right_g, groups,
             gi, cands, skills, seen, row>>
urlVars == <<mapping, map_i, map_j>>
watchVars == <<last_hash, clipboard, watch_log, now>>

-----------------------------------------------------------------------------
(* Characters and strings *)

WHITE_CIRCLE == "U+25CB"
BULLSEYE == "U+25CE"
IDEOGRAPHIC_ZERO == "U+3007"

UpperChars == <<"A","B","C","D","E","F","G","H","I","J","K","L","M",
                "N","O","P","Q","R","S","T","U","V","W","X","Y","Z">>
LowerChars == <<"a","b","c","d","e","f","g","h","i","j","k","l","m",
                "n","o","p","q","r","s","t","u","v","w","x","y","z">>
DigitChars == <<"0","1","2","3","4","5","6","7","8","9">>

Range(s) == {s[i] : i \in 1..Len(s)}

\* The characters beyond ASCII that the texts of the model may hold, besides the
\* circle glyphs: cased letters whose lower case is another character, a
\* character of another script or two characters, and decimal digits of three
\* other scripts, each script in code point order
E_ACUTE_CAPITAL == "U+00C9"
E_ACUTE_SMALL == "U+00E9"
KELVIN_SIGN == "U+212A"
I_DOT_CAPITAL == "U+0130"
COMBINING_DOT_ABOVE == "U+0307"
SIGMA_CAPITAL == "U+03A3"
SIGMA_SMALL == "U+03C3"
SIGMA_FINAL == "U+03C2"
GRAVE_ACCENT == "U+0060"
ArabicIndicDigits == <<"U+0660","U+0661","U+0662","U+0663","U+0664",
                       "U+0665","U+0666","U+0667","U+0668","U+0669">>
DevanagariDigits == <<"U+0966","U+0967","U+0968","U+0969","U+096A",
                      "U+096B","U+096C","U+096D","U+096E","U+096F">>
FullwidthDigits == <<"U+FF10","U+FF11","U+FF12","U+FF13","U+FF14",
                     "U+FF15","U+FF16","U+FF17","U+FF18","U+FF19">>

\* str.lower() on one character: one character, or two for U+0130
Lower(ch) ==
    IF \E i \in 1..26 : UpperChars[i] = ch
    THEN <<LowerChars[CHOOSE i \in 1..26 : UpperChars[i] = ch]>>
    ELSE IF ch = E_ACUTE_CAPITAL THEN <<E_ACUTE_SMALL>>
    ELSE IF ch = KELVIN_SIGN THEN <<"k">>
    ELSE IF ch = I_DOT_CAPITAL THEN <<"i", COMBINING_DOT_ABOVE>>
    ELSE IF ch = SIGMA_CAPITAL THEN <<SIGMA_SMALL>>
    ELSE <<ch>>

\* the Unicode properties Cased and Case_Ignorable on the characters of the model
Cased(ch) ==
    ch \in Range(UpperChars) \cup Range(LowerChars)
           \cup {E_ACUTE_CAPITAL, E_ACUTE_SMALL, KELVIN_SIGN, I_DOT_CAPITAL,
                 SIGMA_CAPITAL, SIGMA_SMALL, SIGMA_FINAL}
CaseIgnorable(ch) == ch \in {"'", ".", ":", "^", GRAVE_ACCENT, COMBINING_DOT_ABOVE}

\* str.lower() writes a capital sigma as the final sigma when a cased letter
\* comes before it and none after it, case-ignorable characters skipped
FinalSigma(s, i) ==
    /\ s[i] = SIGMA_CAPITAL
    /\ \E j \in 1..(i - 1) :
         Cased(s[j]) /\ \A k \in (j + 1)..(i - 1) : CaseIgnorable(s[k])
    /\ ~\E j \in (i + 1)..Len(s) :
         Cased(s[j]) /\ \A k \in (i + 1)..(j - 1) : CaseIgnorable(s[k])

\* s.lower()
RECURSIVE LowerFrom(_, _)
LowerFrom(s, i) ==
    IF i > Len(s) THEN <<>>
    ELSE (IF FinalSigma(s, i) THEN <<SIGMA_FINAL>> ELSE Lower(s[i])) \o LowerFrom(s, i + 1)
LowerStr(name) == LowerFrom(name, 1)

\* " ".join(parts)
RECURSIVE Join(_)
Join(parts) ==
    IF Len(parts) = 0 THEN <<>>
    ELSE IF Len(parts) = 1 THEN parts[1]
    ELSE parts[1] \o <<" ">> \o Join(Tail(parts))

\* `sub in text` for a one-character sub
Contains(text, ch) == \E i \in 1..Len(text) : text[i] = ch

\* _CIRCLE_ALIASES.get(ch, ch)
_CIRCLE_ALIASES(ch) ==
    IF ch \in {"o", "O", "0", IDEOGRAPHIC_ZERO, WHITE_CIRCLE} THEN WHITE_CIRCLE
    ELSE IF ch = BULLSEYE THEN BULLSEYE
    ELSE ch

_normalize_circles(text) == [i \in 1..Len(text) |-> _CIRCLE_ALIASES(text[i])]

\* the character class [a-z0-9 U+25CE U+25CB] of the regular expression
KeyChars == Range(LowerChars) \cup Range(DigitChars) \cup {BULLSEYE, WHITE_CIRCLE}

_norm(s) ==
    LET t == _normalize_circles(s)
        l == LowerStr(t)
    IN  SelectSeq(l, LAMBDA ch : ch \in KeyChars)

-----------------------------------------------------------------------------
(* rapidfuzz: fuzz.ratio and process.extractOne *)

Max2(a, b) == IF a >= b THEN a ELSE b
Min2(a, b) == IF a <= b THEN a ELSE b

\* one row of the longest-common-subsequence table, built left to right;
\* prev and the result have Len(b)+1 entries (column j is entry j+1)
RECURSIVE LCSRow(_, _, _, _)
LCSRow(prev, ch, b, cur) ==
    LET j == Len(cur)
    IN  IF j > Len(b) THEN cur
        ELSE LCSRow(prev, ch, b,
                    Append(cur, IF b[j] = ch THEN prev[j] + 1
                                ELSE Max2(prev[j + 1], cur[j])))

RECURSIVE LCSRows(_, _, _, _)
LCSRows(a, b, i, prev) ==
    IF i > Len(a) THEN prev[Len(b) + 1]
    ELSE LCSRows(a, b, i + 1, LCSRow(prev, a[i], b, <<0>>))

LCS(a, b) == LCSRows(a, b, 1, [j \in 1..(Len(b) + 1) |-> 0])

\* fuzz.ratio(a, b) = 100 * (1 - indel(a, b) / (len(a) + len(b)))
\*                  = 100 * 2 * LCS(a, b) / (len(a) + len(b)),
\* kept exact as the fraction <<numerator, denominator>>; 100 for two empty strings
ratio(a, b) ==
    IF Len(a) + Len(b) = 0 THEN <<100, 1>>
    ELSE <<200 * LCS(a, b), Len(a) + Len(b)>>

ScoreGE(s, t) == s[1] * t[2] >= t[1] * s[2]
ScoreGT(s, t) == s[1] * t[2] > t[1] * s[2]
ScoreOf(n) == <<n, 1>>

NoMatch == [found |-> FALSE, choice |-> <<>>, score |-> <<0, 1>>]

\* process.extractOne(query, choices, scorer=fuzz.ratio, score_cutoff=cutoff):
\* the first choice of the highest score among those scoring at least cutoff
RECURSIVE extractOneFrom(_, _, _, _, _)
extractOneFrom(query, choices, i, cutoff, best) ==
    IF i > Len(choices) THEN best
    ELSE LET score == ratio(query, choices[i])
             take == ScoreGE(score, cutoff)
                       /\ (~best.found \/ ScoreGT(score, best.score))
         IN  extractOneFrom(query, choices, i + 1,
                 IF take THEN score ELSE cutoff,
                 IF take THEN [found |-> TRUE, choice |-> choices[i], score |-> score]
                 ELSE best)

extractOne(query, choices, score_cutoff) ==
    extractOneFrom(query, choices, 1, score_cutoff, NoMatch)

-----------------------------------------------------------------------------
(* Ordered dictionaries: a sequence of <<key, value>> in insertion order *)

DictKeys(d) == [i \in 1..Len(d) |-> d[i][1]]
DictHas(d, k) == \E i \in 1..Len(d) : d[i][1] = k
DictGet(d, k) == d[CHOOSE i \in 1..Len(d) : d[i][1] = k][2]
\* d[k] = v: a new key is appended, an existing key keeps its place and takes v
DictSet(d, k, v) ==
    IF DictHas(d, k)
    THEN [i \in 1..Len(d) |-> IF d[i][1] = k THEN <<k, v>> ELSE d[i]]
    ELSE Append(d, <<k, v>>)

\* NormMapFrom keeping the first name stored under a key
RECURSIVE NormMapFrom_FirstWins(_, _, _)
NormMapFrom_FirstWins(names, i, d) ==
    IF i > Len(names) THEN d
    ELSE NormMapFrom_FirstWins(names, i + 1,
             IF DictHas(d, _norm(names[i])) THEN d
             ELSE DictSet(d, _norm(names[i]), names[i]))

RECURSIVE NormMapFrom(_, _, _)
NormMapFrom(names, i, d) ==
    IF i > Len(names) THEN d
    ELSE NormMapFrom(names, i + 1, DictSet(d, _norm(names[i]), names[i]))

\* {_norm(name): name for name in names}
NormMap(names) == NormMapFrom(names, 1, <<>>)

\* [names[0] for names in data.values() if names]; [] when the file is missing
_load_skills(file) ==
    IF ~file.found THEN <<>>
    ELSE LET kept == SelectSeq(file.data, LAMBDA e : Len(e.names) > 0)
         IN  [i \in 1..Len(kept) |-> kept[i].names[1]]

RECURSIVE FlatNames(_, _)
FlatNames(data, i) ==
    IF i > Len(data) THEN <<>>
    ELSE SelectSeq(data[i].names, LAMBDA n : Len(n) > 0) \o FlatNames(data, i + 1)

\* every non-empty name of every entry; [] when the file is missing
_load_umas(file) == IF ~file.found THEN <<>> ELSE FlatNames(file.data, 1)

-----------------------------------------------------------------------------
(* Geometry: an OCR box is a polygon of four <<x, y>> points *)

SetMin(S) == CHOOSE m \in S : \A e \in S : m <= e
SetMax(S) == CHOOSE m \in S : \A e \in S : m >= e

BoxX0(box) == SetMin({box[i][1] : i \in 1..Len(box)})
BoxY0(box) == SetMin({box[i][2] : i \in 1..Len(box)})
BoxX1(box) == SetMax({box[i][1] : i \in 1..Len(box)})
BoxY1(box) == SetMax({box[i][2] : i \in 1..Len(box)})

\* list.sort(key=...) on a sequence of <<key, item>> with integer keys: a stable
\* insertion sort (an item goes after every item whose key is not greater)
RECURSIVE InsertSorted(_, _)
InsertSorted(sorted, e) ==
    IF Len(sorted) = 0 THEN <<e>>
    ELSE IF e[1] < sorted[Len(sorted)][1]
         THEN Append(InsertSorted(SubSeq(sorted, 1, Len(sorted) - 1), e),
                     sorted[Len(sorted)])
         ELSE Append(sorted, e)

RECURSIVE SortFrom(_, _, _)
SortFrom(s, i, acc) ==
    IF i > Len(s) THEN acc
    ELSE SortFrom(s, i + 1, InsertSorted(acc, s[i]))

\* the items of s in the stable order of keys[i], the key of s[i]
SortByKey(s, keys) ==
    LET sorted == SortFrom([i \in 1..Len(s) |-> <<keys[i], s[i]>>], 1, <<>>)
    IN  [i \in 1..Len(s) |-> sorted[i][2]]

-----------------------------------------------------------------------------
(* Column grouping.  A line is <<x0, y0, x1, y1, text>>, a group of          *)
(* _group_column is <<x0, y0, x1, y1, texts>> and a group of _group_skills   *)
(* is <<x0, y0, x1, y1, text>>.                                             *)

MergeGap == 25
SkillZoneTop == 850

\* lines.sort(key=lambda l: l[1])
SortedByTop(lines) == SortByKey(lines, [i \in 1..Len(lines) |-> lines[i][2]])

\* GroupFrom keeping the bottom edge of the last box merged, not the maximum
RECURSIVE GroupFrom_LastBottom(_, _, _)
GroupFrom_LastBottom(lines, i, grouped) ==
    IF i > Len(lines) THEN grouped
    ELSE LET l == lines[i]
             n == Len(grouped)
         IN  IF n > 0 /\ l[2] - grouped[n][4] < MergeGap
             THEN GroupFrom_LastBottom(lines, i + 1,
                      [grouped EXCEPT ![n] =
                          <<grouped[n][1], grouped[n][2],
                            Max2(grouped[n][3], l[3]), l[4],
                            Append(grouped[n][5], l[5])>>])
             ELSE GroupFrom_LastBottom(lines, i + 1,
                      Append(grouped, <<l[1], l[2], l[3], l[4], <<l[5]>> >>))

RECURSIVE GroupFrom(_, _, _)
GroupFrom(lines, i, grouped) ==
    IF i > Len(lines) THEN grouped
    ELSE LET l == lines[i]
             n == Len(grouped)
         IN  IF n > 0 /\ l[2] - grouped[n][4] < MergeGap
             THEN GroupFrom(lines, i + 1,
                      [grouped EXCEPT ![n] =
                          <<grouped[n][1], grouped[n][2],
                            Max2(grouped[n][3], l[3]),
                            Max2(grouped[n][4], l[4]),
                            Append(grouped[n][5], l[5])>>])
             ELSE GroupFrom(lines, i + 1,
                      Append(grouped, <<l[1], l[2], l[3], l[4], <<l[5]>> >>))

_group_column(lines) == GroupFrom(SortedByTop(lines), 1, <<>>)

\* the lines of the skill zone, lines 117-125
SkillLines(ocr) ==
    LET all == [i \in 1..Len(ocr) |->
                   <<BoxX0(ocr[i].box), BoxY0(ocr[i].box),
                     BoxX1(ocr[i].box), BoxY1(ocr[i].box), ocr[i].text>>]
    IN  SelectSeq(all, LAMBDA l : ~(l[2] < SkillZoneTop))

\* LeftOfMid with the sum of the extremes not halved
LeftOfMid_NoHalving(l, lines) ==
    LET xs == {lines[i][1] : i \in 1..Len(lines)}
    IN  l[1] < SetMin(xs) + SetMax(xs)

\* mid = (min(xs) + max(xs)) / 2 and l[0] < mid, without the division
LeftOfMid(l, lines) ==
    LET xs == {lines[i][1] : i \in 1..Len(lines)}
    IN  2 * l[1] < SetMin(xs) + SetMax(xs)

LeftColumn(lines) == SelectSeq(lines, LAMBDA l : LeftOfMid(l, lines))
RightColumn(lines) == SelectSeq(lines, LAMBDA l : ~LeftOfMid(l, lines))

JoinGroup(g) == <<g[1], g[2], g[3], g[4], Join(g[5])>>

\* for l, r in zip_longest(left_g, right_g): append l if any, then r if any
\* Interleave emitting the whole left column, then the whole right column
Interleave_Concat(lg, rg, i) ==
    [n \in 1..Len(lg) |-> JoinGroup(lg[n])] \o [n \in 1..Len(rg) |-> JoinGroup(rg[n])]

RECURSIVE Interleave(_, _, _)
Interleave(lg, rg, i) ==
    IF i > Len(lg) /\ i > Len(rg) THEN <<>>
    ELSE (IF i <= Len(lg) THEN <<JoinGroup(lg[i])>> ELSE <<>>)
         \o (IF i <= Len(rg) THEN <<JoinGroup(rg[i])>> ELSE <<>>)
         \o Interleave(lg, rg, i + 1)

_group_skills(ocr) ==
    LET lines == SkillLines(ocr)
    IN  IF Len(lines) = 0 THEN <<>>
        ELSE Interleave(_group_column(LeftColumn(lines)),
                        _group_column(RightColumn(lines)), 1)

-----------------------------------------------------------------------------
(* extract: the runner name, lines 181-198 *)

NameZoneBottom == 400

\* y1 < 400 and x0 > width * 0.5
InNameZone(box, w) == BoxY1(box) < NameZoneBottom /\ 2 * BoxX0(box) > w

\* the loop of lines 184-196; the result is <<runner_name, best_score>>.
\* extractOne is called without score_cutoff: every score from 0 up qualifies.
RECURSIVE RunnerNameFrom(_, _, _, _, _, _)
RunnerNameFrom(ocr, w, umap, i, name, best) ==
    IF i > Len(ocr) THEN <<name, best>>
    ELSE LET key == _norm(ocr[i].text)
             match == extractOne(key, DictKeys(umap), ScoreOf(0))
             better == InNameZone(ocr[i].box, w) /\ Len(key) > 0
                         /\ match.found /\ ScoreGT(match.score, best)
         IN  RunnerNameFrom(ocr, w, umap, i + 1,
                 IF better THEN DictGet(umap, match.choice) ELSE name,
                 IF better THEN match.score ELSE best)

\* RunnerName with best_score starting at the cutoff of the skill loop
RunnerName_WithCutoff(ocr, w, umap) ==
    RunnerNameFrom(ocr, w, umap, 1, <<>>, ScoreOf(80))

RunnerName(ocr, w, umap) == RunnerNameFrom(ocr, w, umap, 1, <<>>, ScoreOf(0))

-----------------------------------------------------------------------------
(* extract: the stats, lines 200-219 *)

RowTolerance == 30
MaxStats == 5

StatLabels == <<"Speed", "Stamina", "Power", "Guts", "Wit">>

\* the characters \d matches, in code point order, and the place of one of them
DecimalDigits == DigitChars \o ArabicIndicDigits \o DevanagariDigits \o FullwidthDigits
DecimalDigitSet == Range(DecimalDigits)
DigitVal(ch) == (CHOOSE i \in 1..Len(DecimalDigits) : DecimalDigits[i] = ch) - 1

\* re.fullmatch(r"\d{3,4}", text): \d is any decimal digit, not the ASCII ones only
IsNumeral(text) ==
    /\ Len(text) \in {3, 4}
    /\ \A i \in 1..Len(text) : text[i] \in DecimalDigitSet

\* an integer that orders numerals of up to four digits as Python orders the
\* strings, character by character in code point order, a prefix first
TextKey(text) ==
    LET d(i) == IF i <= Len(text) THEN DigitVal(text[i]) + 1 ELSE 0
        base == Len(DecimalDigits) + 1
    IN  ((d(1) * base + d(2)) * base + d(3)) * base + d(4)

Abs(n) == IF n < 0 THEN -n ELSE n

\* Nums reading the stat zone only: the numeral boxes above the skill zone
Nums_StatZone(ocr) ==
    LET hits == SelectSeq(ocr, LAMBDA b : IsNumeral(b.text) /\ BoxY0(b.box) < SkillZoneTop)
    IN  [i \in 1..Len(hits) |-> <<BoxY0(hits[i].box), BoxX0(hits[i].box), hits[i].text>>]

\* nums of lines 201-206: <<y0, x0, text>> of every numeral box, in OCR order
Nums(ocr) ==
    LET hits == SelectSeq(ocr, LAMBDA b : IsNumeral(b.text))
    IN  [i \in 1..Len(hits) |-> <<BoxY0(hits[i].box), BoxX0(hits[i].box), hits[i].text>>]

\* nums.sort(): the tuples in lexicographic order, as three stable sorts
SortedNums(nums) ==
    LET byText == SortByKey(nums, [i \in 1..Len(nums) |-> TextKey(nums[i][3])])
        byX == SortByKey(byText, [i \in 1..Len(byText) |-> byText[i][2]])
    IN  SortByKey(byX, [i \in 1..Len(byX) |-> byX[i][1]])

\* StatRow without the tolerance filter: every numeral is taken as part of the row
StatRow_NoTolerance(nums) ==
    SortByKey(nums, [i \in 1..Len(nums) |-> nums[i][2]])

\* row of lines 211-213
StatRow(nums) ==
    LET first_y == nums[1][1]
        near == SelectSeq(nums, LAMBDA n : Abs(n[1] - first_y) < RowTolerance)
    IN  SortByKey(near, [i \in 1..Len(near) |-> near[i][2]])

\* stats_vals of lines 209-214
StatsVals(ocr) ==
    LET nums == SortedNums(Nums(ocr))
    IN  IF Len(nums) = 0 THEN <<<<>>, <<>>, <<>>, <<>>, <<>>>>
        ELSE LET r == StatRow(nums)
             IN  [i \in 1..Min2(MaxStats, Len(r)) |-> r[i][3]]

\* dict(zip(labels, vals)): one key per pair, as many pairs as the shorter list has
ZipDict(labels, vals) ==
    [k \in {labels[i] : i \in 1..Min2(Len(labels), Len(vals))} |->
        vals[CHOOSE i \in 1..Len(labels) : labels[i] = k]]

-----------------------------------------------------------------------------
(* extract: the skills, lines 221-242 *)

ScoreCutoff == 80
None == "None"

\* _detect_circle(img, rect): the image decides the glyph found beside each group;
\* the image records it per group, in the order of the loop of line 227
_detect_circle(img, g) == IF g <= Len(img.marks) THEN img.marks[g] ELSE None

\* SkillCand without the check against seen: every match is appended
SkillCand_NoSeen(text, circle, cmap, seenNames) ==
    LET final == IF circle # None /\ ~Contains(text, circle)
                 THEN text \o <<" ">> \o <<circle>> ELSE text
        key == _norm(final)
        match == IF Len(key) = 0 THEN NoMatch
                 ELSE extractOne(key, DictKeys(cmap), ScoreOf(ScoreCutoff))
        canonical == IF match.found THEN DictGet(cmap, match.choice) ELSE <<>>
    IN  [text |-> text, circle |-> circle, final |-> final, key |-> key,
         matched |-> match.found, score |-> match.score, canonical |-> canonical,
         added |-> match.found]

\* SkillCand accepting only scores above the cutoff
SkillCand_Above(text, circle, cmap, seenNames) ==
    LET final == IF circle # None /\ ~Contains(text, circle)
                 THEN text \o <<" ">> \o <<circle>> ELSE text
        key == _norm(final)
        match == IF Len(key) = 0 THEN NoMatch
                 ELSE extractOne(key, DictKeys(cmap), ScoreOf(ScoreCutoff + 1))
        canonical == IF match.found THEN DictGet(cmap, match.choice) ELSE <<>>
    IN  [text |-> text, circle |-> circle, final |-> final, key |-> key,
         matched |-> match.found, score |-> match.score, canonical |-> canonical,
         added |-> match.found /\ canonical \notin seenNames]

\* SkillCand appending the glyph found whether or not the text holds it already
SkillCand_AlwaysAppend(text, circle, cmap, seenNames) ==
    LET final == IF circle # None
                 THEN text \o <<" ">> \o <<circle>> ELSE text
        key == _norm(final)
        match == IF Len(key) = 0 THEN NoMatch
                 ELSE extractOne(key, DictKeys(cmap), ScoreOf(ScoreCutoff))
        canonical == IF match.found THEN DictGet(cmap, match.choice) ELSE <<>>
    IN  [text |-> text, circle |-> circle, final |-> final, key |-> key,
         matched |-> match.found, score |-> match.score, canonical |-> canonical,
         added |-> match.found /\ canonical \notin seenNames]

\* one pass of the loop body, lines 228-240, for a group text and the detector's
\* answer: what the candidate became and whether it was appended to skills
SkillCand(text, circle, cmap, seenNames) ==
    LET final == IF circle # None /\ ~Contains(text, circle)
                 THEN text \o <<" ">> \o <<circle>> ELSE text
        key == _norm(final)
        match == IF Len(key) = 0 THEN NoMatch
                 ELSE extractOne(key, DictKeys(cmap), ScoreOf(ScoreCutoff))
        canonical == IF match.found THEN DictGet(cmap, match.choice) ELSE <<>>
    IN  [text |-> text, circle |-> circle, final |-> final, key |-> key,
         matched |-> match.found, score |-> match.score, canonical |-> canonical,
         added |-> match.found /\ canonical \notin seenNames]

\* "|".join(skills)
RECURSIVE JoinPipe(_)
JoinPipe(parts) ==
    IF Len(parts) = 0 THEN <<>>
    ELSE IF Len(parts) = 1 THEN parts[1]
    ELSE parts[1] \o <<"|">> \o JoinPipe(Tail(parts))

-----------------------------------------------------------------------------
(* append_csv, lines 250-259.  A line of the file is the list of its cells. *)

CsvFields == <<"Name", "Speed", "Stamina", "Power", "Guts", "Wit", "Skills">>
HeaderCells == <<<<"N","a","m","e">>, <<"S","p","e","e","d">>, <<"S","t","a","m","i","n","a">>, <<"P","o","w","e","r">>, <<"G","u","t","s">>, <<"W","i","t">>, <<"S","k","i","l","l","s">>>>

\* DictWriter.writerow: the cells in field order, a missing key written as ""
CsvCells(r) ==
    [i \in 1..Len(CsvFields) |->
        IF CsvFields[i] \in DOMAIN r THEN r[CsvFields[i]] ELSE <<>>]

\* append_csv writing the header on every call
append_csv_HeaderEachCall(r, output) ==
    [exists |-> TRUE,
     lines |-> Append(output.lines, HeaderCells) \o <<CsvCells(r)>>]

append_csv(r, output) ==
    [exists |-> TRUE,
     lines |-> (IF ~output.exists THEN Append(output.lines, HeaderCells)
                ELSE output.lines) \o <<CsvCells(r)>>]

-----------------------------------------------------------------------------
(* The process: module import, the batch driver of lines 262-280, extract *)

Import ==
    /\ pc = "import"
    /\ UNCHANGED <<program, urlVars, watchVars>>
    /\ IF uma_file.found
       THEN /\ CANONICAL_SKILLS' = _load_skills(skill_file)
            /\ CANONICAL_UMAS' = _load_umas(uma_file)
            /\ CANONICAL_MAP' = NormMap(_load_skills(skill_file))
            /\ UMA_MAP' = NormMap(_load_umas(uma_file))
            /\ pc' = "main"
       ELSE /\ pc' = "raised"
            /\ UNCHANGED <<CANONICAL_SKILLS, CANONICAL_UMAS, CANONICAL_MAP, UMA_MAP>>
    /\ UNCHANGED <<skill_file, uma_file, images, res, width, runner_name,
                   best_score, stats, left, right, left_g, right_g, groups, gi,
                   cands, skills, seen, row, csv, processed, extract_calls>>

\* lines 263-271: list the images; with none, sys.exit(0)
MainStart ==
    /\ pc = "main"
    /\ UNCHANGED <<program, urlVars, watchVars>>
    /\ pc' = IF Len(images) = 0 THEN "exit" ELSE "loop"
    /\ UNCHANGED <<skill_file, uma_file, CANONICAL_SKILLS, CANONICAL_UMAS,
                   CANONICAL_MAP, UMA_MAP, images, res, width, runner_name,
                   best_score, stats, left, right, left_g, right_g, groups, gi,
                   cands, skills, seen, row, csv, processed, extract_calls>>

\* line 273 and lines 173-179: the next image, if any, is handed to extract
ExtractCall ==
    /\ pc = "loop"
    /\ UNCHANGED <<program, urlVars, watchVars>>
    /\ IF Len(images) = 0
       THEN /\ pc' = "done"
            /\ UNCHANGED <<res, width, extract_calls, runner_name, best_score,
                           stats, left, right, left_g, right_g, groups, gi,
                           cands, skills, seen>>
       ELSE /\ pc' = "extract_name"
            /\ res' = Head(images).res
            /\ width' = Head(images).width
            /\ extract_calls' = extract_calls + 1
            /\ runner_name' = <<>>
            /\ best_score' = ScoreOf(0)
            /\ stats' = <<>>
            /\ left' = <<>> /\ right' = <<>> /\ left_g' = <<>> /\ right_g' = <<>>
            /\ groups' = <<>>
            /\ gi' = 1
            /\ cands' = <<>>
            /\ skills' = <<>>
            /\ seen' = {}
    /\ UNCHANGED <<skill_file, uma_file, CANONICAL_SKILLS, CANONICAL_UMAS,
                   CANONICAL_MAP, UMA_MAP, images, row, csv, processed>>

ExtractRunnerName ==
    /\ pc = "extract_name"
    /\ UNCHANGED <<program, urlVars, watchVars>>
    /\ runner_name' = RunnerName(res, width, UMA_MAP)[1]
    /\ best_score' = RunnerName(res, width, UMA_MAP)[2]
    /\ pc' = "extract_stats"
    /\ UNCHANGED <<skill_file, uma_file, CANONICAL_SKILLS, CANONICAL_UMAS,
                   CANONICAL_MAP, UMA_MAP, images, res, width, stats, left,
                   right, left_g, right_g, groups, gi, cands, skills, seen, row,
                   csv, processed, extract_calls>>

ExtractStats ==
    /\ pc = "extract_stats"
    /\ UNCHANGED <<program, urlVars, watchVars>>
    /\ stats' = ZipDict(StatLabels, StatsVals(res))
    /\ pc' = "extract_group"
    /\ UNCHANGED <<skill_file, uma_file, CANONICAL_SKILLS, CANONICAL_UMAS,
                   CANONICAL_MAP, UMA_MAP, images, res, width, runner_name,
                   best_score, left, right, left_g, right_g, groups, gi, cands,
                   skills, seen, row, csv, processed, extract_calls>>

\* line 225: groups = _group_skills(res), with the locals it leaves behind
ExtractGroupSkills ==
    /\ pc = "extract_group"
    /\ UNCHANGED <<program, urlVars, watchVars>>
    /\ left' = SortedByTop(LeftColumn(SkillLines(res)))
    /\ right' = SortedByTop(RightColumn(SkillLines(res)))
    /\ left_g' = _group_column(LeftColumn(SkillLines(res)))
    /\ right_g' = _group_column(RightColumn(SkillLines(res)))
    /\ groups' = _group_skills(res)
    /\ gi' = 1
    /\ pc' = "extract_skill"
    /\ UNCHANGED <<skill_file, uma_file, CANONICAL_SKILLS, CANONICAL_UMAS,
                   CANONICAL_MAP, UMA_MAP, images, res, width, runner_name,
                   best_score, stats, cands, skills, seen, row, csv, processed,
                   extract_calls>>

\* one pass of the loop of lines 227-240
ExtractSkillStep ==
    /\ pc = "extract_skill"
    /\ UNCHANGED <<program, urlVars, watchVars>>
    /\ gi <= Len(groups)
    /\ LET c == SkillCand(groups[gi][5], _detect_circle(Head(images), gi),
                          CANONICAL_MAP, seen)
       IN  /\ cands' = Append(cands, c)
           /\ skills' = IF c.added THEN Append(skills, c.canonical) ELSE skills
           /\ seen' = IF c.added THEN seen \cup {c.canonical} ELSE seen
    /\ gi' = gi + 1
    /\ UNCHANGED <<pc, skill_file, uma_file, CANONICAL_SKILLS, CANONICAL_UMAS,
                   CANONICAL_MAP, UMA_MAP, images, res, width, runner_name,
                   best_score, stats, left, right, left_g, right_g, groups, row,
                   csv, processed, extract_calls>>

\* lines 242-247: the record is completed and returned to line 275
ExtractReturn ==
    /\ pc = "extract_skill"
    /\ UNCHANGED <<program, urlVars, watchVars>>
    /\ gi > Len(groups)
    /\ stats' = stats @@ ("Skills" :> JoinPipe(skills)) @@ ("Name" :> runner_name)
    /\ row' = stats'
    /\ pc' = "append"
    /\ UNCHANGED <<skill_file, uma_file, CANONICAL_SKILLS, CANONICAL_UMAS,
                   CANONICAL_MAP, UMA_MAP, images, res, width, runner_name,
                   best_score, left, right, left_g, right_g, groups, gi, cands,
                   skills, seen, csv, processed, extract_calls>>

\* line 276
AppendCsv ==
    /\ pc = "append"
    /\ UNCHANGED <<program, urlVars, watchVars>>
    /\ csv' = append_csv(row, csv)
    /\ pc' = "rename"
    /\ UNCHANGED <<skill_file, uma_file, CANONICAL_SKILLS, CANONICAL_UMAS,
                   CANONICAL_MAP, UMA_MAP, images, res, width, runner_name,
                   best_score, stats, left, right, left_g, right_g, groups, gi,
                   cands, skills, seen, row, processed, extract_calls>>

\* line 277, and line 45 of uma_clipboard_ocr.py: the image is moved to
\* processed/, the caller's loop goes on
Rename ==
    /\ pc = "rename"
    /\ UNCHANGED <<program, urlVars, watchVars>>
    /\ processed' = Append(processed, Head(images).name)
    /\ images' = Tail(images)
    /\ pc' = IF program = "uma_clipboard_ocr" THEN "sleep" ELSE "loop"
    /\ UNCHANGED <<skill_file, uma_file, CANONICAL_SKILLS, CANONICAL_UMAS,
                   CANONICAL_MAP, UMA_MAP, res, width, runner_name, best_score,
                   stats, left, right, left_g, right_g, groups, gi, cands,
                   skills, seen, row, csv, extract_calls>>

Next ==
    \/ Import
    \/ MainStart
    \/ ExtractCall
    \/ ExtractRunnerName
    \/ ExtractStats
    \/ ExtractGroupSkills
    \/ ExtractSkillStep
    \/ ExtractReturn
    \/ AppendCsv
    \/ Rename

-----------------------------------------------------------------------------
(* Inputs: dictionary files and images *)

\* an OCR result entry whose polygon is the rectangle (x0, y0)-(x1, y1)
OcrBox(x0, y0, x1, y1, text) ==
    [box |-> <<<<x0, y0>>, <<x1, y0>>, <<x1, y1>>, <<x0, y1>>>>, text |-> text]

ImageWidth == 1000

Image(name, ocr, marks) ==
    [name |-> name, res |-> ocr, width |-> ImageWidth, marks |-> marks]

RECURSIVE PickFrom(_, _, _)
PickFrom(pool, idx, i) ==
    IF i > Len(pool) THEN <<>>
    ELSE (IF i \in idx THEN <<pool[i]>> ELSE <<>>) \o PickFrom(pool, idx, i + 1)

Reverse(s) == [i \in 1..Len(s) |-> s[Len(s) + 1 - i]]

\* the OCR results made of at most n boxes of a pool, in pool order or reversed
Selections(pool, n) ==
    LET picks == {PickFrom(pool, idx, 1) :
                     idx \in {x \in SUBSET (1..Len(pool)) : Cardinality(x) <= n}}
    IN  picks \cup {Reverse(q) : q \in picks}

\* the detector finding the same glyph beside each of n groups
Uniform(glyph, n) == [i \in 1..n |-> glyph]

\* skillnames.json: identifier -> aliases
SkillData ==
    << [id |-> <<"1","0","0","7","1">>, names |-> <<<<"E","a","r","l","y"," ","L","e","a","d">>>>],
       [id |-> <<"2","0","0","3","3","2">>, names |-> <<<<"C","o","r","n","e","r"," ","A","d","e","p","t"," ","U+25CB">>>>],
       [id |-> <<"2","0","0","3","3","1">>, names |-> <<<<"C","o","r","n","e","r"," ","A","d","e","p","t"," ","U+25CE">>>>],
       [id |-> <<"2","0","0","5","1","2">>, names |-> <<<<"F","o","c","u","s">>>>],
       [id |-> <<"2","0","0","3","5","2">>, names |-> <<<<"R","a","m","p"," ","U","p">>>>],
       [id |-> <<"9","0","0","0","0","1">>, names |-> <<>>] >>

\* umas.json: identifier -> the "name" list of the entry
UmaData ==
    << [id |-> <<"1","0","0","1">>, names |-> <<<<>>, <<"S","p","e","c","i","a","l"," ","W","e","e","k">>>>],
       [id |-> <<"1","0","0","7">>, names |-> <<<<>>, <<"G","o","l","d"," ","S","h","i","p">>>>],
       [id |-> <<"1","0","0","6">>, names |-> <<<<>>, <<"O","g","u","r","i"," ","C","a","p">>>>] >>

SkillFile == [found |-> TRUE, data |-> SkillData]
UmaFile == [found |-> TRUE, data |-> UmaData]
MissingFile == [found |-> FALSE, data |-> <<>>]
EmptyFile == [found |-> TRUE, data |-> <<>>]

InitBase(prog, sf, uf, imgs, clip) ==
    /\ pc = "import"
    /\ program = prog
    /\ mapping = <<>>
    /\ map_i = 1
    /\ map_j = 1
    /\ last_hash = None
    /\ clipboard = clip
    /\ watch_log = <<>>
    /\ now = 0
    /\ skill_file = sf
    /\ uma_file = uf
    /\ CANONICAL_SKILLS = <<>>
    /\ CANONICAL_UMAS = <<>>
    /\ CANONICAL_MAP = <<>>
    /\ UMA_MAP = <<>>
    /\ images = imgs
    /\ res = <<>>
    /\ width = 0
    /\ runner_name = <<>>
    /\ best_score = ScoreOf(0)
    /\ stats = <<>>
    /\ left = <<>> /\ right = <<>> /\ left_g = <<>> /\ right_g = <<>>
    /\ groups = <<>>
    /\ gi = 1
    /\ cands = <<>>
    /\ skills = <<>>
    /\ seen = {}
    /\ row = <<>>
    /\ csv = [exists |-> FALSE, lines |-> <<>>]
    /\ processed = <<>>
    /\ extract_calls = 0

\* uma_ocr_to_csv.py run on a directory of images
InitWith(sf, uf, imgs) == InitBase("uma_ocr_to_csv", sf, uf, imgs, <<>>)

\* no image at all, or one image of every OCR result of ocrs and marking of marks
OneImage(ocrs, marks) ==
    {<<>>} \cup {<<Image("clip_1.png", o, m)>> : o \in ocrs, m \in marks}

-----------------------------------------------------------------------------
(* The stat parser on one image *)

MaxStatBoxes == 7

\* a stat row around y = 100, numerals 29 and 30 pixels below it, an outlier at
\* y = 400 written in full-width digits, two texts that are no 3-4 digit numeral,
\* a numeral in the skill zone
StatPool ==
    << OcrBox(100, 100, 160, 130, <<"1","2","0","0">>),
       OcrBox(200, 102, 260, 132, <<"8","5","0">>),
       OcrBox(300, 105, 360, 135, <<"9","0","0">>),
       OcrBox(400, 100, 460, 130, <<"7","0","0">>),
       OcrBox(500, 102, 560, 132, <<"6","0","0">>),
       OcrBox(600, 129, 660, 159, <<"9","9","9">>),
       OcrBox(50, 130, 90, 160, <<"5","5","5">>),
       OcrBox(150, 400, 210, 430, <<"U+FF14","U+FF10","U+FF10">>),
       OcrBox(250, 100, 290, 130, <<"1","2">>),
       OcrBox(700, 100, 790, 130, <<"1","2","3","4","5">>),
       OcrBox(10, 900, 70, 930, <<"1","2","0">>) >>

InitStats ==
    \E imgs \in OneImage(Selections(StatPool, MaxStatBoxes), {Uniform(None, 1)}) :
        InitWith(SkillFile, UmaFile, imgs)

SpecStats == InitStats /\ [][Next]_vars

-----------------------------------------------------------------------------
(* The skill loop on one image *)

MaxSkillBoxes == 4

\* skill-zone boxes in two columns (x = 10 and x = 500), one per row: exact and
\* misread names, a name seen twice, a name that needs its marker, a text with
\* no key character, a text that already ends with the marker
SkillPool ==
    << OcrBox(10, 860, 110, 880, <<"F","o","c","u","s">>),
       OcrBox(500, 860, 600, 880, <<"F","o","c","v","s">>),
       OcrBox(10, 910, 110, 930, <<"R","a","m","p"," ","U","p">>),
       OcrBox(500, 910, 650, 930, <<"E","o","r","l","y"," ","L","e","c","d">>),
       OcrBox(10, 960, 110, 980, <<"F","o","c","u","s">>),
       OcrBox(500, 960, 680, 980, <<"C","o","r","n","e","r"," ","A","d","e","p","t">>),
       OcrBox(10, 1010, 60, 1030, <<"-","-">>),
       OcrBox(500, 1010, 700, 1030, <<"C","o","r","n","e","r"," ","A","d","e","p","t"," ","U+25CB">>) >>

SkillMarks ==
    {Uniform(None, MaxSkillBoxes), Uniform(WHITE_CIRCLE, MaxSkillBoxes),
     Uniform(BULLSEYE, MaxSkillBoxes)}

InitSkills ==
    \E imgs \in OneImage(Selections(SkillPool, MaxSkillBoxes), SkillMarks) :
        InitWith(SkillFile, UmaFile, imgs)

SpecSkills == InitSkills /\ [][Next]_vars

-----------------------------------------------------------------------------
(* The runner name on one image *)

MaxNameBoxes == 3

\* boxes of the name zone (bottom above 400, left edge right of the middle) with an
\* exact name, a misread name, an unrelated word, a text with no key character and
\* a text sharing no character with any name; boxes just outside the zone; one
\* skill-zone box
NamePool ==
    << OcrBox(600, 50, 800, 80, <<"S","p","e","c","i","a","l"," ","W","e","e","k">>),
       OcrBox(600, 100, 800, 130, <<"G","o","l","d"," ","S","h","l","p">>),
       OcrBox(600, 150, 800, 180, <<"T","r","a","i","n","e","e">>),
       OcrBox(600, 200, 800, 230, <<"?","?","?">>),
       OcrBox(600, 250, 800, 280, <<"X","Y","Z">>),
       OcrBox(100, 50, 300, 80, <<"S","p","e","c","i","a","l"," ","W","e","e","k">>),
       OcrBox(600, 380, 800, 410, <<"G","o","l","d"," ","S","h","i","p">>),
       OcrBox(500, 300, 700, 330, <<"O","g","u","r","i"," ","C","a","p">>),
       OcrBox(10, 860, 110, 880, <<"F","o","c","u","s">>) >>

InitName ==
    \E imgs \in OneImage(Selections(NamePool, MaxNameBoxes), {Uniform(None, 1)}) :
        InitWith(SkillFile, UmaFile, imgs)

SpecName == InitName /\ [][Next]_vars

-----------------------------------------------------------------------------
(* The column grouper on one image *)

MaxGroupBoxes == 5

\* two fragments of one name; a tall box, a short box inside its extent and a box
\* 24 pixels below the tall one; a right column with gaps of 24, 30 and more; a
\* box above the skill zone and a box on its first row
GroupPool ==
    << OcrBox(10, 960, 85, 980, <<"E","a","r","l","y"," ","L","e">>),
       OcrBox(90, 965, 110, 985, <<"a","d">>),
       OcrBox(10, 900, 80, 935, <<"A">>),
       OcrBox(20, 905, 60, 915, <<"B">>),
       OcrBox(10, 959, 50, 975, <<"C">>),
       OcrBox(500, 900, 560, 920, <<"R","1">>),
       OcrBox(500, 944, 560, 964, <<"R","2">>),
       OcrBox(520, 1000, 580, 1020, <<"R","3">>),
       OcrBox(10, 840, 80, 870, <<"Z">>),
       OcrBox(500, 850, 560, 870, <<"Y">>),
       OcrBox(5, 925, 40, 930, <<"D">>) >>

InitGroup ==
    \E imgs \in OneImage(Selections(GroupPool, MaxGroupBoxes), {Uniform(None, 1)}) :
        InitWith(SkillFile, UmaFile, imgs)

SpecGroup == InitGroup /\ [][Next]_vars

-----------------------------------------------------------------------------
(* Building the dictionary from any skillnames.json *)

MaxEntries == 3

\* entries whose first aliases collide after normalisation (same name, and
\* different names), an entry with two aliases, an entry with none
EntryPool ==
    << [id |-> <<"1","0","0","7","1">>, names |-> <<<<"E","a","r","l","y"," ","L","e","a","d">>>>],
       [id |-> <<"1","0","0","7","2">>, names |-> <<<<"E","a","r","l","y","-","L","e","a","d">>>>],
       [id |-> <<"2","0","0","5","1","2">>, names |-> <<<<"F","o","c","u","s">>, <<"C","o","n","c","e","n","t","r","a","t","i","o","n">>>>],
       [id |-> <<"9","0","0","0","0","1">>, names |-> <<>>],
       [id |-> <<"9","1","0","0","7","1">>, names |-> <<<<"E","a","r","l","y"," ","L","e","a","d">>>>],
       [id |-> <<"2","0","0","5","1","3">>, names |-> <<<<"F","O","C","U","S">>>>] >>

\* the files of at most n entries of a pool, each entry once (JSON keys are unique)
Files(entries, n) ==
    LET orders == UNION {[1..k -> 1..Len(entries)] : k \in 0..n}
        distinct == {o \in orders : \A i, j \in 1..Len(o) : i # j => o[i] # o[j]}
    IN  {[found |-> TRUE, data |-> [i \in 1..Len(o) |-> entries[o[i]]]] : o \in distinct}

DictImage ==
    Image("clip_1.png",
          <<OcrBox(10, 860, 110, 880, <<"E","a","r","l","y"," ","L","e","a","d">>),
            OcrBox(500, 860, 600, 880, <<"F","o","c","u","s">>)>>,
          Uniform(None, 2))

InitDict ==
    \E sf \in Files(EntryPool, MaxEntries), imgs \in {<<>>, <<DictImage>>} :
        InitWith(sf, UmaFile, imgs)

SpecDict == InitDict /\ [][Next]_vars

-----------------------------------------------------------------------------
(* The batch driver over a directory of images *)

MaxImages == 2

MainImages ==
    << Image("a.png",
             <<OcrBox(600, 50, 800, 80, <<"S","p","e","c","i","a","l"," ","W","e","e","k">>),
               OcrBox(100, 100, 160, 130, <<"1","2","0","0">>),
               OcrBox(200, 102, 260, 132, <<"8","5","0">>),
               OcrBox(10, 860, 110, 880, <<"F","o","c","u","s">>),
               OcrBox(500, 860, 600, 880, <<"R","a","m","p"," ","U","p">>)>>,
             Uniform(None, 2)),
       Image("b.png",
             <<OcrBox(100, 100, 160, 130, <<"9","0","0">>),
               OcrBox(10, 860, 200, 880, <<"C","o","r","n","e","r"," ","A","d","e","p","t">>)>>,
             Uniform(BULLSEYE, 1)),
       Image("c.jpg", <<>>, <<>>) >>

\* the directory listings of at most n of the images, each file once
Listings(n) ==
    LET orders == UNION {[1..k -> 1..Len(MainImages)] : k \in 0..n}
        distinct == {o \in orders : \A i, j \in 1..Len(o) : i # j => o[i] # o[j]}
    IN  {[i \in 1..Len(o) |-> MainImages[o[i]]] : o \in distinct}

\* a file whose only entry has no alias
NoAliasFile == [found |-> TRUE, data |-> <<[id |-> <<"9">>, names |-> <<>>]>>]

Init ==
    \E sf \in {SkillFile, MissingFile, EmptyFile, NoAliasFile},
       uf \in {UmaFile, MissingFile},
       imgs \in Listings(MaxImages) :
        InitWith(sf, uf, imgs)

Spec == Init /\ [][Next]_vars

-----------------------------------------------------------------------------
(* uma_csv_to_url.py: load_skill_mapping, lines 98-112 *)

\* skill_id.startswith("9")
StartsWith9(skill_id) == Len(skill_id) > 0 /\ skill_id[1] = "9"

\* the body of the inner loop with every alias overwriting what is stored
MappingPut_LastWins(m, key, skill_id) == DictSet(m, key, skill_id)

\* lines 107-111: existing = mapping.get(key); the key is stored when it is new, or
\* when it holds an identifier starting with "9" and skill_id does not
MappingPut(m, key, skill_id) ==
    IF ~DictHas(m, key) \/ (StartsWith9(DictGet(m, key)) /\ ~StartsWith9(skill_id))
    THEN DictSet(m, key, skill_id)
    ELSE m

\* lines 99-103: the file is opened and parsed; a missing file raises out of main
OpenSkillFile ==
    /\ pc = "import"
    /\ program = "uma_csv_to_url"
    /\ pc' = IF skill_file.found THEN "mapping_loop" ELSE "raised"
    /\ mapping' = <<>>
    /\ map_i' = 1
    /\ map_j' = 1
    /\ UNCHANGED <<ocrVars, watchVars, program, skill_file, uma_file, images, csv,
                   processed, extract_calls>>

\* lines 104-111: one step of the two loops, the next alias of the entry or the
\* next entry
MappingStep ==
    /\ pc = "mapping_loop"
    /\ map_i <= Len(skill_file.data)
    /\ LET entry == skill_file.data[map_i]
       IN  IF map_j <= Len(entry.names)
           THEN /\ mapping' = MappingPut(mapping, LowerStr(entry.names[map_j]), entry.id)
                /\ map_j' = map_j + 1
                /\ UNCHANGED map_i
           ELSE /\ map_i' = map_i + 1
                /\ map_j' = 1
                /\ UNCHANGED mapping
    /\ UNCHANGED <<pc, ocrVars, watchVars, program, skill_file, uma_file, images,
                   csv, processed, extract_calls>>

\* line 112
MappingReturn ==
    /\ pc = "mapping_loop"
    /\ map_i > Len(skill_file.data)
    /\ pc' = "done"
    /\ UNCHANGED <<urlVars, ocrVars, watchVars, program, skill_file, uma_file,
                   images, csv, processed, extract_calls>>

NextUrl ==
    \/ OpenSkillFile
    \/ MappingStep
    \/ MappingReturn

MaxUrlEntries == 3

\* skillnames.json entries sharing keys: two plain identifiers, two identifiers
\* starting with "9", both kinds, aliases that differ by case only (in ASCII
\* and beyond), no alias
UrlPool ==
    << [id |-> <<"1","0","0","7","1">>, names |-> <<<<"E","a","r","l","y"," ","L","e","a","d">>>>],
       [id |-> <<"9","1","0","0","7","1">>, names |-> <<<<"E","a","r","l","y"," ","L","e","a","d">>, <<"F","o","c","u","s">>>>],
       [id |-> <<"1","0","0","7","2">>, names |-> <<<<"E","A","R","L","Y"," ","L","E","A","D">>, <<E_ACUTE_CAPITAL,"c","l","a","t">>>>],
       [id |-> <<"9","0","0","5","1","2">>, names |-> <<<<"f","o","c","u","s">>, <<E_ACUTE_SMALL,"c","l","a","t">>>>],
       [id |-> <<"2","0","0","5","1","2">>, names |-> <<<<"F","o","c","u","s">>>>],
       [id |-> <<"9","0","0","0","0","1">>, names |-> <<>>] >>

\* umas.json is there: the module was imported (line 143) before the call
InitUrl ==
    \E sf \in Files(UrlPool, MaxUrlEntries) \cup {MissingFile} :
        InitBase("uma_csv_to_url", sf, UmaFile, <<>>, <<>>)

SpecUrl == InitUrl /\ [][NextUrl]_vars

-----------------------------------------------------------------------------
(* uma_clipboard_ocr.py: the clipboard watcher, lines 32-47 *)

\* hashlib.md5 of the byte strings the clipboard images below are made of
Md5 == [A |-> "7fc56270e7a70fa81a5935b72eacbe29", B |-> "9d5ed678fe57bcca610140957afab571"]

\* isinstance(img, Image.Image)
IsImage(obj) == obj.kind = "image"

\* lines 16-20: the digest of img.tobytes(), whatever the size of the image
_hash_image(img) == Md5[img.bytes]

\* lines 23-29: the image saved as clip_<timestamp>.png
_save_temp(img, timestamp) ==
    [name |-> "clip_" \o ToString(timestamp) \o ".png",
     res |-> img.res, width |-> img.width, marks |-> img.marks]

\* lines 38-40: whether what the poll found is processed
ShouldProcess(obj, last) == IsImage(obj) /\ _hash_image(obj) # last

\* last_hash after a poll that forgets the last image when it finds no image
NextLastHash_ResetOnOther(obj, last) ==
    IF IsImage(obj) THEN _hash_image(obj) ELSE None

\* lines 39-40: last_hash takes the hash of the image that is processed, and is
\* left as it is by any other poll
NextLastHash(obj, last) ==
    IF ShouldProcess(obj, last) THEN _hash_image(obj) ELSE last

\* lines 33-35
WatchStart ==
    /\ pc = "main"
    /\ program = "uma_clipboard_ocr"
    /\ last_hash' = None
    /\ pc' = "watch"
    /\ UNCHANGED <<ocrVars, urlVars, program, skill_file, uma_file, images, csv,
                   processed, extract_calls, clipboard, watch_log, now>>

\* lines 37-42: one look at the clipboard; a new image is saved for extract
WatchPoll ==
    /\ pc = "watch"
    /\ clipboard # <<>>
    /\ LET img == Head(clipboard)
       IN  /\ watch_log' = Append(watch_log,
                                  [found |-> img, processed |-> ShouldProcess(img, last_hash)])
           /\ last_hash' = NextLastHash(img, last_hash)
           /\ images' = IF ShouldProcess(img, last_hash)
                        THEN <<_save_temp(img, now)>> ELSE images
           /\ pc' = IF ShouldProcess(img, last_hash) THEN "loop" ELSE "sleep"
    /\ clipboard' = Tail(clipboard)
    /\ UNCHANGED <<ocrVars, urlVars, program, skill_file, uma_file, csv, processed,
                   extract_calls, now>>

\* line 47
WatchSleep ==
    /\ pc = "sleep"
    /\ now' = now + 1
    /\ pc' = "watch"
    /\ UNCHANGED <<ocrVars, urlVars, program, skill_file, uma_file, images, csv,
                   processed, extract_calls, last_hash, clipboard, watch_log>>

\* Ctrl+C, once the clipboard has nothing more to show
WatchStop ==
    /\ pc = "watch"
    /\ clipboard = <<>>
    /\ pc' = "done"
    /\ UNCHANGED <<ocrVars, urlVars, watchVars, program, skill_file, uma_file,
                   images, csv, processed, extract_calls>>

NextWatch ==
    \/ Import
    \/ WatchStart
    \/ WatchPoll
    \/ WatchSleep
    \/ WatchStop
    \/ ExtractCall
    \/ ExtractRunnerName
    \/ ExtractStats
    \/ ExtractGroupSkills
    \/ ExtractSkillStep
    \/ ExtractReturn
    \/ AppendCsv
    \/ Rename

MaxPolls == 3

\* what a poll can find: no image (text, nothing), a screenshot, another image of
\* the same bytes and another shape, a second screenshot
ClipboardPool ==
    << [kind |-> "other"],
       [kind |-> "image", bytes |-> "A", res |-> MainImages[1].res,
        width |-> ImageWidth, marks |-> MainImages[1].marks],
       [kind |-> "image", bytes |-> "A", res |-> MainImages[1].res,
        width |-> ImageWidth \div 2, marks |-> MainImages[1].marks],
       [kind |-> "image", bytes |-> "B", res |-> MainImages[2].res,
        width |-> ImageWidth, marks |-> MainImages[2].marks] >>

\* the sequences of at most n observations
Observations(n) ==
    UNION {{[i \in 1..k |-> ClipboardPool[o[i]]] : o \in [1..k -> 1..Len(ClipboardPool)]} :
              k \in 0..n}

InitWatch ==
    \E clip \in Observations(MaxPolls) :
        InitBase("uma_clipboard_ocr", SkillFile, UmaFile, <<>>, clip)

SpecWatch == InitWatch /\ [][NextWatch]_vars

-----------------------------------------------------------------------------
(* Properties *)

\* the boxes of res that hold a bare 3-4 digit numeral, the topmost top coordinate
\* among them, and the boxes within the tolerance of it
NumIdx == {i \in 1..Len(res) : IsNumeral(res[i].text)}
TopY == SetMin({BoxY0(res[i].box) : i \in NumIdx})
RowIdx ==
    LET top == TopY
    IN  {i \in NumIdx : Abs(BoxY0(res[i].box) - top) < RowTolerance}
\* how many boxes of the row lie strictly left of box i, and left of or level with it
RowLo(i) == Cardinality({j \in RowIdx : BoxX0(res[j].box) < BoxX0(res[i].box)})
RowHi(i) == Cardinality({j \in RowIdx : BoxX0(res[j].box) <= BoxX0(res[i].box)})

IsDigitsOrEmpty(v) == \A i \in 1..Len(v) : v[i] \in DecimalDigitSet

\* C1: the record extract returns holds each of Speed, Stamina, Power, Guts and
\* Wit, as a digit string or the empty string, whatever the image held (with
\* fewer than five numerals in the row the remaining labels are present and blank).
C1_FiveStatFields ==
    pc = "append" =>
        \A p \in 1..Len(StatLabels) :
            /\ StatLabels[p] \in DOMAIN row
            /\ IsDigitsOrEmpty(row[StatLabels[p]])

\* C6: when the image holds a numeral, the stat row is the numerals whose top is
\* within the tolerance of the topmost numeral's top; its values go to the labels
\* in increasing left-edge order, the first five at most, and no numeral outside
\* the row is assigned.
C6_StatRowAssigned ==
    (pc = "extract_group" /\ NumIdx # {}) =>
        LET k == Min2(MaxStats, Cardinality(RowIdx))
        IN  /\ DOMAIN stats = {StatLabels[p] : p \in 1..k}
            /\ \A p \in 1..k :
                 \E i \in RowIdx : /\ stats[StatLabels[p]] = res[i].text
                                   /\ RowLo(i) < p
                                   /\ p <= RowHi(i)

\* a row of six numerals and an outlier below it: five values were assigned
C6_Witness ==
    /\ pc = "extract_group"
    /\ NumIdx # {}
    /\ Cardinality(RowIdx) = 6
    /\ NumIdx \ RowIdx # {}
    /\ DOMAIN stats = Range(StatLabels)

\* the line _group_skills makes of box i, the boxes whose line went to a column,
\* and the boxes whose text went to a stat label (the first five of the row)
LineOf(i) == <<BoxX0(res[i].box), BoxY0(res[i].box), BoxX1(res[i].box),
               BoxY1(res[i].box), res[i].text>>
InSkillLines == {i \in 1..Len(res) : LineOf(i) \in Range(left) \cup Range(right)}
InStats == {i \in RowIdx : RowLo(i) < MaxStats}

\* C13 as stated: the cutoff 850 partitions the boxes; skill candidates come only
\* from boxes at or below it, stat values only from boxes above it, and no box
\* contributes both to a stat field and to a skill candidate group.
C13_ZonesPartition ==
    pc = "extract_skill" =>
        /\ \A i \in InSkillLines : BoxY0(res[i].box) >= SkillZoneTop
        /\ \A i \in InStats : BoxY0(res[i].box) < SkillZoneTop
        /\ InStats \cap InSkillLines = {}

\* C13, amended: skill candidates are built from exactly the boxes whose top is
\* at or below 850. Stat values are taken from exactly the first five numerals
\* from the left of the stat row (the numerals within the tolerance of the
\* topmost numeral of the whole image), whatever side of 850 they are on. So a
\* box contributes both to a stat field and to a skill candidate group exactly
\* when it is one of those numerals and its top is at or below 850.
C13_SkillZoneOnlyForSkills ==
    pc = "extract_skill" =>
        LET inLines == InSkillLines
            inStats == InStats
            labelOf == [i \in inStats |-> StatLabels[RowHi(i)]]
        IN  /\ inLines = {i \in 1..Len(res) : BoxY0(res[i].box) >= SkillZoneTop}
            /\ Len(left) + Len(right) = Cardinality(inLines)
            /\ \A i \in inStats :
                 /\ labelOf[i] \in DOMAIN stats
                 /\ stats[labelOf[i]] = res[i].text
            /\ \A label \in DOMAIN stats :
                 \/ \E i \in inStats : label = labelOf[i]
                 \/ inStats = {} /\ NumIdx = {} /\ stats[label] = <<>>
            /\ inStats \cap inLines =
                   {i \in inStats : BoxY0(res[i].box) >= SkillZoneTop}

\* a numeral at or below 850 that is both a stat value and a line of a column,
\* in an image that also holds a box above 850 that is in neither
C13_Witness ==
    /\ pc = "extract_skill"
    /\ InStats \cap InSkillLines # {}
    /\ \E i \in 1..Len(res) : i \notin InStats \cup InSkillLines

\* the loop passes so far that matched a dictionary key, and for a canonical name
\* the first pass that matched it
MatchedIdx == {n \in 1..Len(cands) : cands[n].matched}
FirstPass(name) == SetMin({n \in MatchedIdx : cands[n].canonical = name})

\* C2: the skill list never holds a canonical name twice; it holds exactly the
\* names matched so far, each at the position of its first match in group order.
C2_DedupFirstOccurrence ==
    /\ \A i, j \in 1..Len(skills) : i # j => skills[i] # skills[j]
    /\ Range(skills) = {cands[n].canonical : n \in MatchedIdx}
    /\ \A i, j \in 1..Len(skills) :
         i < j => FirstPass(skills[i]) < FirstPass(skills[j])

\* a name matched by two groups with another name matched in between, after the loop
C2_Witness ==
    /\ pc = "append"
    /\ Len(skills) >= 2
    /\ \E i, j, k \in MatchedIdx :
         /\ i < j /\ j < k
         /\ cands[i].canonical = cands[k].canonical
         /\ cands[j].canonical # cands[i].canonical

\* whether some dictionary key scores at least the cutoff against key
ReachesCutoff(key) ==
    \E k \in 1..Len(CANONICAL_MAP) :
        ScoreGE(ratio(key, CANONICAL_MAP[k][1]), ScoreOf(ScoreCutoff))

\* C4: a candidate is accepted exactly when its key is not empty and its best
\* score against the dictionary is at least 80; an accepted candidate's score is
\* at least 80 and the best there is, and its canonical name is in the skill
\* list; a rejected candidate contributes nothing to the list.
C4_CutoffInclusive ==
    /\ \A n \in 1..Len(cands) :
         /\ cands[n].matched <=> (Len(cands[n].key) > 0 /\ ReachesCutoff(cands[n].key))
         /\ cands[n].matched =>
              /\ ScoreGE(cands[n].score, ScoreOf(ScoreCutoff))
              /\ \A k \in 1..Len(CANONICAL_MAP) :
                   ScoreGE(cands[n].score, ratio(cands[n].key, CANONICAL_MAP[k][1]))
              /\ \E k \in 1..Len(CANONICAL_MAP) :
                   /\ CANONICAL_MAP[k][2] = cands[n].canonical
                   /\ cands[n].score = ratio(cands[n].key, CANONICAL_MAP[k][1])
              /\ cands[n].canonical \in Range(skills)
    /\ Range(skills) \subseteq {cands[n].canonical : n \in MatchedIdx}
    /\ Len(skills) <= Cardinality(MatchedIdx)

\* one candidate scoring exactly 80 was accepted alone, another below 80 rejected
C4_Witness ==
    /\ pc = "append"
    /\ \E n, m \in 1..Len(cands) :
         /\ cands[n].matched
         /\ cands[n].score[1] = ScoreCutoff * cands[n].score[2]
         /\ Len(cands[m].key) > 0
         /\ ~cands[m].matched
         /\ skills = <<cands[n].canonical>>

\* pass n of the loop worked on group n and on what the detector found beside it
PassInputs(n) ==
    /\ cands[n].text = groups[n][5]
    /\ cands[n].circle = _detect_circle(Head(images), n)

\* C14 as stated: without a marker, or with a glyph the text already holds, the
\* text is unchanged; otherwise exactly the one glyph is appended to it; a
\* detected glyph is in the text afterwards.
C14_GlyphAppended ==
    pc \in {"extract_skill", "append"} =>
        \A n \in 1..Len(cands) :
            /\ PassInputs(n)
            /\ cands[n].final =
                 IF cands[n].circle = None \/ Contains(cands[n].text, cands[n].circle)
                 THEN cands[n].text
                 ELSE cands[n].text \o <<cands[n].circle>>
            /\ cands[n].circle # None => Contains(cands[n].final, cands[n].circle)

\* C14, amended: without a marker, or with a glyph the text already holds, the
\* text is unchanged; otherwise a space and then the one glyph are appended to
\* it, so the key gains the glyph alone; a detected glyph is in the text
\* afterwards.
C14_SpaceAndGlyphAppended ==
    pc \in {"extract_skill", "append"} =>
        \A n \in 1..Len(cands) :
            /\ PassInputs(n)
            /\ cands[n].final =
                 IF cands[n].circle = None \/ Contains(cands[n].text, cands[n].circle)
                 THEN cands[n].text
                 ELSE cands[n].text \o <<" ", cands[n].circle>>
            /\ cands[n].circle # None => Contains(cands[n].final, cands[n].circle)
            /\ cands[n].key =
                 IF cands[n].circle = None \/ Contains(cands[n].text, cands[n].circle)
                 THEN _norm(cands[n].text)
                 ELSE _norm(cands[n].text) \o <<cands[n].circle>>

\* after the loop: a glyph was appended to one text and found in another
C14_Witness ==
    /\ pc = "append"
    /\ \E n, m \in 1..Len(cands) :
         /\ cands[n].circle # None
         /\ cands[n].final # cands[n].text
         /\ cands[m].circle # None
         /\ cands[m].final = cands[m].text

\* the boxes of the name zone whose text has a key, and the score of box i
\* against entry k of the name dictionary
NameCandIdx ==
    {i \in 1..Len(res) : InNameZone(res[i].box, width) /\ Len(_norm(res[i].text)) > 0}
NameScore(i, k) == ratio(_norm(res[i].text), UMA_MAP[k][1])

\* C3 as claimed: the runner name is set only when some candidate box's best match
\* reaches the cutoff of 80; with every candidate below it the name stays empty.
C3_NameCutoff ==
    (pc = "extract_stats" /\ runner_name # <<>>) =>
        \E i \in NameCandIdx, k \in 1..Len(UMA_MAP) :
            ScoreGE(NameScore(i, k), ScoreOf(ScoreCutoff))

\* C3 as the code has it: no cutoff applies to the name.  The runner name is set
\* exactly when some candidate box scores above 0 against the name dictionary, and
\* it is then the name of a highest-scoring match over all candidate boxes, with
\* best_score that score.
C3_NameBestAboveZero ==
    pc = "extract_stats" =>
        /\ runner_name # <<>> <=>
             \E i \in NameCandIdx, k \in 1..Len(UMA_MAP) :
                 ScoreGT(NameScore(i, k), ScoreOf(0))
        /\ runner_name # <<>> =>
             \E i \in NameCandIdx, k \in 1..Len(UMA_MAP) :
                 /\ UMA_MAP[k][2] = runner_name
                 /\ best_score = NameScore(i, k)
                 /\ \A j \in NameCandIdx, m \in 1..Len(UMA_MAP) :
                      ScoreGE(NameScore(i, k), NameScore(j, m))

\* a name was set although every candidate box scored below the cutoff
C3_Witness ==
    /\ pc = "extract_stats"
    /\ runner_name # <<>>
    /\ NameCandIdx # {}
    /\ \A i \in NameCandIdx, k \in 1..Len(UMA_MAP) :
         ~ScoreGE(NameScore(i, k), ScoreOf(ScoreCutoff))

\* the two fragments of the claim and a box of another column
EarlyLeBox == GroupPool[1]
AdBox == GroupPool[2]
EarlyLeAd == <<"E","a","r","l","y"," ","L","e"," ","a","d">>
GroupTexts == [n \in 1..Len(groups) |-> groups[n][5]]

\* C5 as claimed: the fragments "Early Le" at (10, 960) and "ad" at (90, 965),
\* alone in the skill zone, come out as the one group "Early Le ad".
C5_OneGroup ==
    (pc = "extract_skill" /\ Range(res) = {EarlyLeBox, AdBox}) =>
        GroupTexts = <<EarlyLeAd>>

\* C5 as the code has it: alone, the two fragments fall on either side of the
\* midpoint 50 of their left edges and come out as the two groups "Early Le" and
\* "ad"; with a skill-zone box at x = 500 beside them both are in the left column
\* and merge into the one group "Early Le ad".
C5_TwoGroupsAlone ==
    pc = "extract_skill" =>
        /\ Range(res) = {EarlyLeBox, AdBox} =>
             GroupTexts = <<EarlyLeBox.text, AdBox.text>>
        /\ (\E b \in Range(res) : BoxX0(b.box) = 500 /\ BoxY0(b.box) >= SkillZoneTop)
             /\ Range(res) \ {b \in Range(res) : BoxX0(b.box) = 500}
                  = {EarlyLeBox, AdBox} =>
             \E n \in 1..Len(groups) : groups[n][5] = EarlyLeAd

\* the two fragments alone were grouped
C5_Witness ==
    /\ pc = "extract_skill"
    /\ res = <<EarlyLeBox, AdBox>>
    /\ Len(groups) = 2

\* in a column's groups g: the first line of group n, and the group of line k
RECURSIVE LinesBefore(_, _)
LinesBefore(g, n) == IF n <= 1 THEN 0 ELSE LinesBefore(g, n - 1) + Len(g[n - 1][5])
GroupStart(g, n) == 1 + LinesBefore(g, n)
GroupOfLine(g, k) == SetMax({n \in 1..Len(g) : GroupStart(g, n) <= k})
\* the greatest bottom edge of the lines of k's group up to line k
BottomSoFar(lines, g, k) ==
    SetMax({lines[j][4] : j \in GroupStart(g, GroupOfLine(g, k))..k})

\* the merge rule on one column: its lines in top order and its groups
MergeRule(lines, g) ==
    /\ \A k \in 1..(Len(lines) - 1) : lines[k][2] <= lines[k + 1][2]
    /\ GroupStart(g, Len(g) + 1) = Len(lines) + 1
    /\ \A k \in 1..(Len(lines) - 1) :
         (GroupOfLine(g, k + 1) = GroupOfLine(g, k))
            <=> (lines[k + 1][2] - BottomSoFar(lines, g, k) < 25)

\* C9: in each column, taken in top order, a box joins the group of the box before
\* it exactly when its top minus the greatest bottom edge merged into that group
\* so far is below 25; otherwise it starts a new group.
C9_MergeBelowThreshold ==
    pc = "extract_skill" => MergeRule(left, left_g) /\ MergeRule(right, right_g)

\* a box merged only because an earlier box of the group reaches lower than the
\* box just before it, and a box that started a new group
C9_Witness ==
    /\ pc = "extract_skill"
    /\ \E k \in 1..(Len(left) - 1) :
         /\ GroupOfLine(left_g, k + 1) = GroupOfLine(left_g, k)
         /\ left[k + 1][2] - left[k][4] >= 25
    /\ Len(right_g) >= 2

\* the extent of the lines of group n of a column: least left, least top, greatest
\* right, greatest bottom
UnionRect(lines, g, n) ==
    LET members == GroupStart(g, n)..(GroupStart(g, n + 1) - 1)
    IN  << SetMin({lines[k][1] : k \in members}), SetMin({lines[k][2] : k \in members}),
           SetMax({lines[k][3] : k \in members}), SetMax({lines[k][4] : k \in members}) >>

RectIsUnion(lines, g) ==
    \A n \in 1..Len(g) : <<g[n][1], g[n][2], g[n][3], g[n][4]>> = UnionRect(lines, g, n)

\* C12: the rect of every group of either column is the union of the extents of
\* the boxes merged into it: least left edge, least top, greatest right edge,
\* greatest bottom.
C12_RectIsUnion ==
    pc = "extract_skill" => RectIsUnion(left, left_g) /\ RectIsUnion(right, right_g)

\* what the code keeps instead: the left edge and top of the topmost box, the
\* greatest right edge and bottom
RectFromFirstBox ==
    pc = "extract_skill" =>
        \A c \in {<<left, left_g>>, <<right, right_g>>} : \A n \in 1..Len(c[2]) :
            LET u == UnionRect(c[1], c[2], n)
                first == c[1][GroupStart(c[2], n)]
            IN  c[2][n][1] = first[1] /\ c[2][n][2] = u[2] /\ c[2][n][3] = u[3] /\ c[2][n][4] = u[4]

\* C10: the groups come out row by row, the left column's i-th group right before
\* the right column's i-th; a column that has run out leaves no placeholder, so
\* there are as many groups as both columns have together, each column in order.
C10_Interleaved ==
    pc = "extract_skill" =>
        /\ Len(groups) = Len(left_g) + Len(right_g)
        /\ \A i \in 1..Len(left_g) :
             groups[i + Min2(i - 1, Len(right_g))] = JoinGroup(left_g[i])
        /\ \A i \in 1..Len(right_g) :
             groups[i + Min2(i, Len(left_g))] = JoinGroup(right_g[i])

\* two rows on the left, one on the right
C10_Witness ==
    /\ pc = "extract_skill"
    /\ Len(left_g) = 2
    /\ Len(right_g) = 1
    /\ Len(groups) = 3

\* the entries of skillnames.json that have an alias, and those among them whose
\* canonical name (the first alias) normalises to the key of entry e's
WithAlias == {e \in 1..Len(skill_file.data) : Len(skill_file.data[e].names) > 0}
CanonicalOf(e) == skill_file.data[e].names[1]
SameKey(e) == {f \in WithAlias : _norm(CanonicalOf(f)) = _norm(CanonicalOf(e))}

\* C7 as claimed: for every entry with an alias, some alias of it normalises to a
\* key of CANONICAL_MAP whose value is that entry's canonical name, also when
\* several entries' names normalise to the same key.
C7_EveryEntryMapsBack ==
    (pc # "import" /\ skill_file.found) =>
        \A e \in WithAlias :
            \E a \in 1..Len(skill_file.data[e].names) :
                /\ DictHas(CANONICAL_MAP, _norm(skill_file.data[e].names[a]))
                /\ DictGet(CANONICAL_MAP, _norm(skill_file.data[e].names[a]))
                     = CanonicalOf(e)

\* C7 as the code has it: for every entry with an alias, its canonical name
\* normalises to a key of CANONICAL_MAP, and the value is the canonical name of
\* the last entry whose canonical name normalises to that key; so it is the
\* entry's own name unless a later entry of another name shares the key.  The
\* map holds one key per distinct normalised canonical name and nothing else.
C7_LastEntryWins ==
    (pc # "import" /\ skill_file.found) =>
        /\ \A e \in WithAlias :
             /\ DictHas(CANONICAL_MAP, _norm(CanonicalOf(e)))
             /\ DictGet(CANONICAL_MAP, _norm(CanonicalOf(e)))
                  = CanonicalOf(SetMax(SameKey(e)))
        /\ Len(CANONICAL_MAP) = Cardinality({_norm(CanonicalOf(e)) : e \in WithAlias})

\* two entries of different names under one key, after the import
C7_Witness ==
    /\ pc = "main"
    /\ \E e, f \in WithAlias :
         /\ e < f
         /\ f \in SameKey(e)
         /\ CanonicalOf(e) # CanonicalOf(f)
         /\ DictGet(CANONICAL_MAP, _norm(CanonicalOf(e))) = CanonicalOf(f)

\* C8: a run whose skill dictionary could not be read or came out empty never
\* calls extract and never appends to the CSV file.
C8_AbortOnEmptyDictionary ==
    (pc # "import" /\ (~skill_file.found \/ Len(CANONICAL_SKILLS) = 0)) =>
        (extract_calls = 0 /\ ~csv.exists /\ csv.lines = <<>>)

\* the calls of append_csv so far: one per image moved to processed/, and the one
\* whose image is about to be moved
AppendCalls == Len(processed) + (IF pc = "rename" THEN 1 ELSE 0)

CsvShape ==
    IF AppendCalls = 0 THEN ~csv.exists /\ csv.lines = <<>>
    ELSE /\ csv.exists
         /\ Len(csv.lines) = 1 + AppendCalls
         /\ csv.lines[1] = HeaderCells
         /\ \A k \in 2..Len(csv.lines) : csv.lines[k] # HeaderCells

CsvStep ==
    IF pc = "append"
    THEN csv'.lines = (IF AppendCalls = 0 THEN <<HeaderCells>> ELSE csv.lines)
                          \o <<CsvCells(row)>>
    ELSE csv' = csv

\* C15: starting from a missing file, after any number of append_csv calls the
\* file is one header line followed by one data line per call; every call adds
\* its row at the end, the first call alone writes the header before it, and
\* nothing else changes the file.
C15_OneHeaderThenRows == []CsvShape /\ [][CsvStep]_vars

\* two calls have been made: a header and two different rows
C15_Witness ==
    /\ AppendCalls = 2
    /\ Len(csv.lines) = 3
    /\ csv.lines[2] # csv.lines[3]

\* the <<key, skill_id>> pairs the loops of load_skill_mapping have visited so far
RECURSIVE PairsOf(_, _, _)
PairsOf(data, i, j) ==
    IF i = 0 THEN <<>>
    ELSE IF j = 0 THEN PairsOf(data, i - 1, IF i > 1 THEN Len(data[i - 1].names) ELSE 0)
    ELSE Append(PairsOf(data, i, j - 1), <<LowerStr(data[i].names[j]), data[i].id>>)
Visited ==
    IF pc \in {"import", "raised"} THEN <<>>
    ELSE IF map_i > Len(skill_file.data)
         THEN PairsOf(skill_file.data, Len(skill_file.data),
                      IF skill_file.data = <<>> THEN 0
                      ELSE Len(skill_file.data[Len(skill_file.data)].names))
         ELSE PairsOf(skill_file.data, map_i, map_j - 1)
\* among the visits v: those of a key, and those of them with a plain identifier
VisitsIn(v, key) == {n \in 1..Len(v) : v[n][1] = key}
PlainVisitsIn(v, key) == {n \in VisitsIn(v, key) : ~StartsWith9(v[n][2])}
VisitsOf(key) == VisitsIn(Visited, key)

PreferredId ==
    LET v == Visited
    IN  /\ Range(DictKeys(mapping)) = {v[n][1] : n \in 1..Len(v)}
        /\ \A n \in 1..Len(v) :
             LET key == v[n][1]
                 plain == PlainVisitsIn(v, key)
             IN  DictGet(mapping, key) =
                     IF plain # {}
                     THEN v[SetMin(plain)][2]
                     ELSE v[SetMin(VisitsIn(v, key))][2]

PlainIdKept ==
    \A k \in 1..Len(mapping) :
        ~StartsWith9(mapping[k][2]) => (Len(mapping') >= k /\ mapping'[k] = mapping[k])

\* C11: in whatever order the entries are visited, a key visited with a plain
\* identifier and with identifiers starting with "9" maps to the plain one (the
\* first plain one visited; with none, the first identifier visited), and a plain
\* identifier once stored is never replaced.
C11_PlainIdPreferred == []PreferredId /\ [][PlainIdKept]_vars

\* the loops are over: one key was visited first with an identifier starting with
\* "9" and then with a plain one, another the other way round
C11_Witness ==
    /\ pc = "done"
    /\ \E a, b \in 1..Len(Visited) :
         /\ a < b
         /\ Visited[a][1] = Visited[b][1]
         /\ StartsWith9(Visited[a][2]) /\ ~StartsWith9(Visited[b][2])
         /\ VisitsOf(Visited[a][1]) = {a, b}
    /\ \E a, b \in 1..Len(Visited) :
         /\ a < b
         /\ Visited[a][1] = Visited[b][1]
         /\ ~StartsWith9(Visited[a][2]) /\ StartsWith9(Visited[b][2])
         /\ VisitsOf(Visited[a][1]) = {a, b}

\* the polls so far that processed what they found, and the hash of the image
\* processed last before poll n (None when there was none)
ProcessedPolls == {n \in 1..Len(watch_log) : watch_log[n].processed}
LastProcessedHash(n) ==
    LET before == {m \in ProcessedPolls : m < n}
    IN  IF before = {} THEN None ELSE _hash_image(watch_log[SetMax(before)].found)
\* the data rows of the CSV file
DataRows == IF csv.exists THEN Len(csv.lines) - 1 ELSE 0

\* C16: a poll processes what it found exactly when that is an image whose hash
\* differs from the hash of the image processed last (what is not an image is
\* skipped and leaves that hash alone); every processed image gets one call of
\* extract and one row, and its file is in processed/ only once the row is written.
C16_ProcessedWhenHashDiffers ==
    /\ \A n \in 1..Len(watch_log) :
         watch_log[n].processed <=>
             (/\ IsImage(watch_log[n].found)
              /\ _hash_image(watch_log[n].found) # LastProcessedHash(n))
    /\ last_hash = LastProcessedHash(Len(watch_log) + 1)
    /\ extract_calls = Cardinality(ProcessedPolls) - (IF pc = "loop" THEN 1 ELSE 0)
    /\ DataRows = Cardinality(ProcessedPolls)
                    - (IF pc \in {"loop", "extract_name", "extract_stats",
                                  "extract_group", "extract_skill", "append"}
                       THEN 1 ELSE 0)
    /\ Len(processed) = DataRows - (IF pc = "rename" THEN 1 ELSE 0)
    /\ Len(images) = (IF pc \in {"watch", "sleep", "done", "import", "main"} THEN 0 ELSE 1)

\* an image was processed, then the clipboard held no image, then an image of the
\* same hash was left alone: one call, one row, one file moved
C16_Witness ==
    /\ pc = "done"
    /\ Len(watch_log) = 3
    /\ watch_log[1].processed
    /\ ~IsImage(watch_log[2].found)
    /\ IsImage(watch_log[3].found) /\ ~watch_log[3].processed
    /\ watch_log[3].found # watch_log[1].found
    /\ extract_calls = 1 /\ DataRows = 1 /\ Len(processed) = 1
====
